---- MODULE Spec2Model ----
(***************************************************************************)
(* Model of generator_core/teletext_generator.py: the vocabulary loaders   *)
(* (load_file_lines and the module-level SPECIALS / NUMBERS / WORD_LISTS), *)
(* pick_words_dynamic, distribute_tokens and generate_password.            *)
(*                                                                         *)
(* A Python str is a sequence of one-character strings, so that            *)
(* concatenation, strip() and "".join() are computed, not assumed.         *)
(* A float of bits e is held exactly as the rational 2^e = <<num, den>>:   *)
(* k * log2(x) is x^k, a sum of such terms is a product, and two values    *)
(* compare by cross-multiplication.  Floating-point rounding is not        *)
(* modelled.                                                               *)
(***************************************************************************)
EXTENDS Integers, Sequences, FiniteSets

VARIABLES
    LIBRARY_DIR,    \* line 73: contents of the library directory at import (only read)
    WORD_LISTS,     \* lines 119-127: module global, list of word lists
    SPECIALS,       \* line 115: module global, list of special tokens
    NUMBERS,        \* line 116: module global, list of number tokens
    pc,             \* position inside generate_password (lines 203-245)
    n_words,        \* line 203: generate_password argument
    n_specials,     \* line 203: generate_password argument
    n_numbers,      \* line 203: generate_password argument
    idx_a,          \* line 162: pick_words_dynamic local (0 when line 162 is not reached)
    idx_b,          \* line 162: pick_words_dynamic local (0 when line 162 is not reached)
    words,          \* line 227: generate_password local
    tokens,         \* lines 230-232: generate_password local, distribute_tokens parameter
    decorated,      \* line 193: distribute_tokens local
    t,              \* line 194: number of tokens the loop of distribute_tokens has consumed
    pw,             \* line 234: returned password
    entropy,        \* lines 239-244: returned entropy
    exc             \* line 195: exception leaving generate_password ("none" when none)

vars == <<LIBRARY_DIR, WORD_LISTS, SPECIALS, NUMBERS, pc, n_words, n_specials, n_numbers,
          idx_a, idx_b, words, tokens, decorated, t, pw, entropy, exc>>

vocab == <<LIBRARY_DIR, WORD_LISTS, SPECIALS, NUMBERS>>

-----------------------------------------------------------------------------
(* Bounds of the model: a request has n_words in -1..MaxWords, n_specials and  *)
(* n_numbers in -1..MaxTokens with at most MaxTokens tokens, and at most       *)
(* MaxRequest words and tokens together; C4 raises a count by 1..MaxDelta.     *)

MaxWords == 2

MaxTokens == 2

MaxRequest == 4

MaxDelta == 2

-----------------------------------------------------------------------------
(* Generic helpers *)

Max(a, b) == IF a >= b THEN a ELSE b

Range(s) == {s[i] : i \in 1..Len(s)}

Pow(b, e) == IF e <= 0 THEN 1 ELSE b ^ e

RECURSIVE Join(_)
Join(ss) == IF ss = <<>> THEN <<>> ELSE Head(ss) \o Join(Tail(ss))

-----------------------------------------------------------------------------
(* Dynamic loaders *)

Whitespace == {" ", "\t"}

RECURSIVE LStrip(_)
LStrip(s) == IF s # <<>> /\ Head(s) \in Whitespace THEN LStrip(Tail(s)) ELSE s

RECURSIVE RStrip(_)
RStrip(s) ==
    IF s # <<>> /\ s[Len(s)] \in Whitespace THEN RStrip(SubSeq(s, 1, Len(s) - 1)) ELSE s

Strip(s) == RStrip(LStrip(s))

RECURSIVE StrippedNonEmpty(_)
StrippedNonEmpty(lines) ==
    IF lines = <<>> THEN <<>>
    ELSE IF Strip(Head(lines)) # <<>>
         THEN <<Strip(Head(lines))>> \o StrippedNonEmpty(Tail(lines))
         ELSE StrippedNonEmpty(Tail(lines))

\* A path is [exists |-> BOOLEAN, lines |-> raw lines of the file].
load_file_lines(path) ==
    IF ~path.exists THEN <<>> ELSE StrippedNonEmpty(path.lines)

OrFallbackNone(loaded, fallback) == loaded

\* Python's `loaded or fallback` for lists.
OrFallback(loaded, fallback) == IF loaded = <<>> THEN fallback ELSE loaded

RECURSIVE AppendNonEmpty(_)
AppendNonEmpty(files) ==
    IF files = <<>> THEN <<>>
    ELSE LET ws == load_file_lines(Head(files))
         IN  IF ws # <<>> THEN <<ws>> \o AppendNonEmpty(Tail(files))
             ELSE AppendNonEmpty(Tail(files))

FallbackWords == << <<"e","r","r","o","r">>,
                    <<"m","i","s","s","i","n","g">>,
                    <<"w","o","r","d","s">> >>

LoadSpecials(lib) == OrFallback(load_file_lines(lib.specials), << <<"!">> >>)

LoadNumbers(lib) == OrFallback(load_file_lines(lib.numbers), << <<"1">> >>)

LoadWordLists(lib) ==
    LET lists == AppendNonEmpty(lib.wordfiles)
    IN  IF lists = <<>> THEN <<FallbackWords>> ELSE lists

-----------------------------------------------------------------------------
(* Contents of the library directory the module may be imported with *)

Missing == [exists |-> FALSE, lines |-> <<>>]

File(lines) == [exists |-> TRUE, lines |-> lines]

Libraries ==
    { \* nothing bundled: every placeholder is substituted
      [specials |-> Missing, numbers |-> Missing, wordfiles |-> <<>>],
      \* one word list of two words, two specials, two numbers
      [specials  |-> File(<< <<"!">>, <<" ","@"," ">> >>),
       numbers   |-> File(<< <<"1">>, <<>>, <<"2">> >>),
       wordfiles |-> << File(<< <<"a","p">>, <<"b","e">> >>) >>],
      \* two word lists (average size below 2), blank specials file, padded number
      [specials  |-> File(<< <<" ">>, <<>> >>),
       numbers   |-> File(<< <<" ","7">> >>),
       wordfiles |-> << File(<< <<"x">>, <<"y">> >>), File(<< <<"z">> >>) >>],
      \* an empty word file between two one-word lists that share their word
      [specials  |-> Missing, numbers |-> File(<<>>),
       wordfiles |-> << File(<< <<"u">> >>), File(<< <<" ">> >>), File(<< <<"u">> >>) >>],
      \* three word lists
      [specials  |-> File(<< <<"#">> >>), numbers |-> Missing,
       wordfiles |-> << File(<< <<"p">> >>), File(<< <<"q">> >>), File(<< <<"r">>, <<"q">> >>) >>]
    }

Init ==
    /\ \E lib \in Libraries :
          /\ LIBRARY_DIR = lib
          /\ SPECIALS = LoadSpecials(lib)
          /\ NUMBERS = LoadNumbers(lib)
          /\ WORD_LISTS = LoadWordLists(lib)
    /\ pc = "idle"
    /\ n_words = 0 /\ n_specials = 0 /\ n_numbers = 0
    /\ idx_a = 0 /\ idx_b = 0
    /\ words = <<>> /\ tokens = <<>> /\ decorated = <<>> /\ t = 0
    /\ pw = <<>> /\ entropy = <<1, 1>> /\ exc = "none"

-----------------------------------------------------------------------------
(* random *)

\* random.choice(seq) k times: every list of k elements of seq.
Choices(seq, k) == [1..k -> Range(seq)]

Permutations(n) == {p \in [1..n -> 1..n] : \A i, j \in 1..n : p[i] = p[j] => i = j}

\* random.shuffle(seq): every reordering of seq.
Shuffles(seq) == {[i \in 1..Len(seq) |-> seq[p[i]]] : p \in Permutations(Len(seq))}

-----------------------------------------------------------------------------
(* pick_words_dynamic *)

ChosenListsAny == Range(WORD_LISTS)

\* chosen_list = WORD_LISTS[0]
ChosenLists == {WORD_LISTS[1]}

SeedIndicesSame(lists) == <<lists[1], lists[1]>>

\* idx_a, idx_b = lists[0], lists[1]
SeedIndices(lists) == <<lists[1], lists[2]>>

SingleBranchListsOnly(n) == Len(WORD_LISTS) = 1

\* len(WORD_LISTS) == 1 or n_words == 1
SingleBranch(n) == Len(WORD_LISTS) = 1 \/ n = 1

\* The fill loop: while len(selected) < n_words, append a word of any list.
RECURSIVE Fill(_, _)
Fill(selected, n) ==
    IF Len(selected) < n
    THEN UNION {Fill(Append(selected, w), n) :
                   w \in UNION {Range(WORD_LISTS[li]) : li \in 1..Len(WORD_LISTS)}}
    ELSE {selected}

\* The set of outcomes [a, b, result] of pick_words_dynamic(n).
pick_words_dynamic(n) ==
    IF n <= 0 THEN {[a |-> 0, b |-> 0, result |-> <<>>]}
    ELSE IF SingleBranch(n)
    THEN {[a |-> 0, b |-> 0, result |-> r] :
             r \in UNION {Choices(chosen_list, n) : chosen_list \in ChosenLists}}
    ELSE UNION {
           LET ab == SeedIndices(lists)
           IN  UNION {
                 UNION {
                   {[a |-> ab[1], b |-> ab[2], result |-> r] : r \in Shuffles(full)} :
                   full \in Fill(<<wa, wb>>, n)} :
                 wa \in Range(WORD_LISTS[ab[1]]), wb \in Range(WORD_LISTS[ab[2]])} :
           lists \in Shuffles([i \in 1..Len(WORD_LISTS) |-> i])}

-----------------------------------------------------------------------------
(* generate_password *)

Generate ==
    /\ pc = "idle"
    /\ \E w \in (-1)..MaxWords, s \in (-1)..MaxTokens, n \in (-1)..MaxTokens :
          /\ Max(0, s) + Max(0, n) <= MaxTokens
          /\ Max(0, w) + Max(0, s) + Max(0, n) <= MaxRequest
          /\ n_words' = w /\ n_specials' = s /\ n_numbers' = n
    /\ pc' = "pick"
    /\ UNCHANGED <<vocab, idx_a, idx_b, words, tokens, decorated, t, pw, entropy, exc>>

\* words = pick_words_dynamic(n_words)
PickWords ==
    /\ pc = "pick"
    /\ \E o \in pick_words_dynamic(n_words) :
          /\ words' = o.result
          /\ idx_a' = o.a
          /\ idx_b' = o.b
    /\ pc' = "tokens"
    /\ UNCHANGED <<vocab, n_words, n_specials, n_numbers, tokens, decorated, t, pw,
                   entropy, exc>>

\* The token pool: max(0, s) specials followed by max(0, n) numbers, shuffled.
TokenPools(s, n) ==
    UNION {Shuffles(sd \o nd) :
              sd \in Choices(SPECIALS, Max(0, s)), nd \in Choices(NUMBERS, Max(0, n))}

InitDecoratedReversed(ws) ==
    [i \in 1..Len(ws) |-> [pre |-> <<>>, word |-> ws[Len(ws) + 1 - i], post |-> <<>>]]

\* decorated = [{"pre": "", "word": w, "post": ""} for w in words]
InitDecorated(ws) == [i \in 1..Len(ws) |-> [pre |-> <<>>, word |-> ws[i], post |-> <<>>]]

\* tokens = ...; random.shuffle(tokens); distribute_tokens(words, tokens) is entered
BuildTokens ==
    /\ pc = "tokens"
    /\ tokens' \in TokenPools(n_specials, n_numbers)
    /\ decorated' = InitDecorated(words)
    /\ t' = 0
    /\ pc' = "distribute"
    /\ UNCHANGED <<vocab, n_words, n_specials, n_numbers, idx_a, idx_b, words, pw,
                   entropy, exc>>

AttachPreOverwrite(d, tok) == [d EXCEPT !.pre = tok]

\* decorated[idx]["pre"] += t
AttachPre(d, tok) == [d EXCEPT !.pre = @ \o tok]

\* decorated[idx]["post"] += t
AttachPost(d, tok) == [d EXCEPT !.post = @ \o tok]

\* One iteration of `for t in tokens` with a non-empty `decorated`.
DistributeStep ==
    /\ pc = "distribute"
    /\ t < Len(tokens)
    /\ Len(decorated) > 0
    /\ \E idx \in 1..Len(decorated), prefix \in BOOLEAN :
          decorated' = [decorated EXCEPT ![idx] =
                           IF prefix THEN AttachPre(@, tokens[t + 1])
                           ELSE AttachPost(@, tokens[t + 1])]
    /\ t' = t + 1
    /\ UNCHANGED <<vocab, pc, n_words, n_specials, n_numbers, idx_a, idx_b, words,
                   tokens, pw, entropy, exc>>

\* random.randrange(0) raises ValueError, which leaves generate_password.
DistributeRaise ==
    /\ pc = "distribute"
    /\ t < Len(tokens)
    /\ Len(decorated) = 0
    /\ pc' = "raised"
    /\ exc' = "ValueError"
    /\ UNCHANGED <<vocab, n_words, n_specials, n_numbers, idx_a, idx_b, words, tokens,
                   decorated, t, pw, entropy>>

\* f"{d['pre']}{d['word']}{d['post']}"
Render(d) == d.pre \o d.word \o d.post

Rendered(ds) == [i \in 1..Len(ds) |-> Render(ds[i])]

(* Entropy, as the rational 2^bits *)

RatMul(x, y) == <<x[1] * y[1], x[2] * y[2]>>

\* k * log2(x) for a rational x >= 1 and any integer k
KLog2(k, x) ==
    IF k >= 0 THEN <<Pow(x[1], k), Pow(x[2], k)>> ELSE <<Pow(x[2], -k), Pow(x[1], -k)>>

RatEq(x, y) == x[1] * y[2] = y[1] * x[2]

RatLeq(x, y) == x[1] * y[2] <= y[1] * x[2]

RECURSIVE SumLen(_)
SumLen(ls) == IF ls = <<>> THEN 0 ELSE Len(Head(ls)) + SumLen(Tail(ls))

\* avg_vocab = total_vocab / max(1, len(WORD_LISTS))
avg_vocab == <<SumLen(WORD_LISTS), Max(1, Len(WORD_LISTS))>>

Max2NoFloor(x) == x

\* max(2, avg_vocab)
Max2(x) == IF x[1] >= 2 * x[2] THEN x ELSE <<2, 1>>

PlacementTermNegated(w, ntokens) == KLog2(-ntokens, <<2 * Max(1, w), 1>>)

\* len(tokens) * math.log2(2 * max(1, n_words))
PlacementTerm(w, ntokens) == KLog2(ntokens, <<2 * Max(1, w), 1>>)

\* The entropy expression of generate_password
EntropyExpr(w, s, n, ntokens) ==
    RatMul(RatMul(KLog2(w, Max2(avg_vocab)),
                  IF SPECIALS # <<>> THEN KLog2(s, <<Len(SPECIALS), 1>>) ELSE <<1, 1>>),
           RatMul(IF NUMBERS # <<>> THEN KLog2(n, <<Len(NUMBERS), 1>>) ELSE <<1, 1>>,
                  PlacementTerm(w, ntokens)))

\* What generate_password(w, s, n) returns as entropy when it returns:
\* len(tokens) is max(0, s) + max(0, n).
EstimateEntropy(w, s, n) == EntropyExpr(w, s, n, Max(0, s) + Max(0, n))

\* return of distribute_tokens, "".join, the entropy estimate, return
Finish ==
    /\ pc = "distribute"
    /\ t = Len(tokens)
    /\ pw' = Join(Rendered(decorated))
    /\ entropy' = EntropyExpr(n_words, n_specials, n_numbers, Len(tokens))
    /\ pc' = "done"
    /\ UNCHANGED <<vocab, n_words, n_specials, n_numbers, idx_a, idx_b, words, tokens,
                   decorated, t, exc>>

\* The caller takes the result (or the exception); the next call starts afresh.
Return ==
    /\ pc \in {"done", "raised"}
    /\ pc' = "idle"
    /\ n_words' = 0 /\ n_specials' = 0 /\ n_numbers' = 0
    /\ idx_a' = 0 /\ idx_b' = 0
    /\ words' = <<>> /\ tokens' = <<>> /\ decorated' = <<>> /\ t' = 0
    /\ pw' = <<>> /\ entropy' = <<1, 1>> /\ exc' = "none"
    /\ UNCHANGED vocab

Next ==
    \/ Generate
    \/ PickWords
    \/ BuildTokens
    \/ DistributeStep
    \/ DistributeRaise
    \/ Finish
    \/ Return

Spec == Init /\ [][Next]_vars

-----------------------------------------------------------------------------
(* Properties *)

Letters == {"a","b","c","d","e","f","g","h","i","j","k","l","m",
            "n","o","p","q","r","s","t","u","v","w","x","y","z"}

\* The characters of s that belong to keep, in order.
RECURSIVE Filter(_, _)
Filter(s, keep) ==
    IF s = <<>> THEN <<>>
    ELSE IF Head(s) \in keep THEN <<Head(s)>> \o Filter(Tail(s), keep)
    ELSE Filter(Tail(s), keep)

\* How many characters of s belong to of.
Count(s, of) == Len(Filter(s, of))

AllWords == UNION {Range(WORD_LISTS[li]) : li \in 1..Len(WORD_LISTS)}

\* The characters of a vocabulary of one-character tokens.
Chars(vocabulary) == {tok[1] : tok \in Range(vocabulary)}

NonNegativeRequest == n_words >= 0 /\ n_specials >= 0 /\ n_numbers >= 0

Picked == pc \in {"tokens", "distribute", "done", "raised"}

\* C1: for every request with all three counts >= 0 and every outcome of the
\* random choices, generate_password completes without raising an error.
C1_NeverRaises == NonNegativeRequest => pc # "raised" /\ exc = "none"

\* C2: negative counts are clamped to zero: the entropy returned for (w, s, n) is
\* the entropy returned for (max(0,w), max(0,s), max(0,n)), and is never negative.
C2_NegativesClamped ==
    pc = "done" =>
        /\ RatEq(entropy, EstimateEntropy(Max(0, n_words), Max(0, n_specials),
                                          Max(0, n_numbers)))
        /\ RatLeq(<<1, 1>>, entropy)

\* The entropy formula of the specification, section 4.3.
SpecFormula(w, s, n) ==
    LET averageVocabSize == <<SumLen(WORD_LISTS), Len(WORD_LISTS)>>
        floor == IF RatLeq(<<2, 1>>, averageVocabSize) THEN averageVocabSize ELSE <<2, 1>>
    IN  RatMul(RatMul(KLog2(w, floor), KLog2(s, <<Len(SPECIALS), 1>>)),
               RatMul(KLog2(n, <<Len(NUMBERS), 1>>), KLog2(s + n, <<2 * Max(1, w), 1>>)))

C4_Monotone ==
    pc = "done" =>
        \A d \in 1..MaxDelta :
            /\ RatLeq(entropy, EstimateEntropy(n_words + d, n_specials, n_numbers))
            /\ RatLeq(entropy, EstimateEntropy(n_words, n_specials + d, n_numbers))
            /\ RatLeq(entropy, EstimateEntropy(n_words, n_specials, n_numbers + d))

C4_Witness ==
    /\ pc = "done"
    /\ n_words = 2 /\ n_specials = 1 /\ n_numbers = 1
    /\ Len(SPECIALS) = 1
    /\ RatEq(entropy, EstimateEntropy(n_words, n_specials, n_numbers))
    /\ ~RatLeq(EstimateEntropy(n_words, n_specials + 1, n_numbers), entropy)

\* C5: distribute_tokens returns one element per input word in the original word
\* order; removing the tokens from each element gives back that word, and from
\* the joined string the concatenation of the words in order; with no tokens the
\* words are returned unchanged.  (Words are letters, tokens are not.)
C5_RoundTrip ==
    /\ pc \in {"distribute", "done"} =>
          /\ Len(decorated) = Len(words)
          /\ \A i \in 1..Len(decorated) : Filter(Render(decorated[i]), Letters) = words[i]
          /\ tokens = <<>> => Rendered(decorated) = words
    /\ pc = "done" =>
          /\ Filter(pw, Letters) = Join(words)
          /\ tokens = <<>> => pw = Join(words)

C5_Witness ==
    /\ pc = "done"
    /\ Len(words) = 2 /\ words[1] # words[2]
    /\ Len(tokens) = 2
    /\ decorated[2].pre # <<>> /\ decorated[2].post # <<>>
    /\ pw = words[1] \o tokens[1] \o words[2] \o tokens[2]

\* C6: for n_words >= 1 and non-negative n_specials, n_numbers the password
\* consists of exactly n_words vocabulary words plus exactly n_specials tokens
\* of SPECIALS and n_numbers tokens of NUMBERS, each in the prefix or the suffix
\* of some word; no token of the pool is dropped or placed twice.
\* (The vocabularies hold one-character tokens, specials and numbers disjoint.)
C6_TokenConservation ==
    (pc = "done" /\ n_words >= 1 /\ n_specials >= 0 /\ n_numbers >= 0) =>
        LET attached == Join([i \in 1..Len(decorated) |->
                                 decorated[i].pre \o decorated[i].post])
        IN  /\ Len(decorated) = n_words
            /\ \A i \in 1..Len(decorated) : decorated[i].word \in AllWords
            /\ Len(tokens) = n_specials + n_numbers
            /\ Count(attached, Chars(SPECIALS)) = n_specials
            /\ Count(attached, Chars(NUMBERS)) = n_numbers
            /\ Len(attached) = n_specials + n_numbers
            /\ \A c \in Chars(SPECIALS) \cup Chars(NUMBERS) :
                  /\ Count(attached, {c}) = Count(Join(tokens), {c})
                  /\ Count(pw, {c}) = Count(Join(tokens), {c})
            /\ Len(pw) = Len(Join(words)) + n_specials + n_numbers

C6_Witness ==
    /\ pc = "done"
    /\ n_words = 2 /\ n_specials = 1 /\ n_numbers = 1
    /\ Len(decorated[1].pre) = 2
    /\ Count(pw, Chars(SPECIALS)) = 1 /\ Count(pw, Chars(NUMBERS)) = 1

\* C7: pick_words_dynamic(n) returns exactly max(0, n) words for every integer n
\* and every collection of word lists; every returned word is a member of some
\* word list, and of the single list when there is exactly one.
C7_PickWordsLength ==
    Picked =>
        /\ Len(words) = Max(0, n_words)
        /\ \A i \in 1..Len(words) : words[i] \in AllWords
        /\ Len(WORD_LISTS) = 1 => \A i \in 1..Len(words) : words[i] \in Range(WORD_LISTS[1])

C7_Witness ==
    /\ pc = "tokens"
    /\ Len(WORD_LISTS) = 3
    /\ n_words = MaxWords /\ Len(words) = MaxWords

VocabularyNonEmpty ==
    /\ Len(WORD_LISTS) >= 1
    /\ \A li \in 1..Len(WORD_LISTS) : WORD_LISTS[li] # <<>>
    /\ SPECIALS # <<>>
    /\ NUMBERS # <<>>

PlaceholdersSubstituted ==
    /\ load_file_lines(LIBRARY_DIR.specials) = <<>> => SPECIALS = << <<"!">> >>
    /\ load_file_lines(LIBRARY_DIR.numbers) = <<>> => NUMBERS = << <<"1">> >>
    /\ (\A f \in Range(LIBRARY_DIR.wordfiles) : load_file_lines(f) = <<>>)
          => WORD_LISTS = << << <<"e","r","r","o","r">>,
                                <<"m","i","s","s","i","n","g">>,
                                <<"w","o","r","d","s">> >> >>

\* C8: in every reachable state there is at least one word list, every word list
\* is non-empty, SPECIALS and NUMBERS are non-empty (the placeholders stand in
\* for missing or empty sources), and no step of generate_password changes a
\* vocabulary.
C8_VocabularyInvariant ==
    /\ [](VocabularyNonEmpty /\ PlaceholdersSubstituted)
    /\ [][vocab' = vocab]_vars

C8_Witness ==
    /\ pc = "done"
    /\ ~LIBRARY_DIR.specials.exists
    /\ LIBRARY_DIR.wordfiles = <<>>
    /\ Len(WORD_LISTS[1]) = 3
    /\ n_words = 2 /\ n_specials = 1

C10_OneWordFromFirstList ==
    (Picked /\ n_words = 1 /\ Len(WORD_LISTS) >= 2) =>
        /\ Len(words) = 1
        /\ words[1] \in Range(WORD_LISTS[1])

C10_Witness ==
    /\ pc = "tokens"
    /\ n_words = 1
    /\ Len(WORD_LISTS) >= 2
    /\ AllWords # Range(WORD_LISTS[1])
    /\ Len(words) = 1

====
